---- MODULE Spec2Model ----
(***************************************************************************)
(* Invoice QC service: the validation engine (validator.py) and the text   *)
(* extraction pipeline (extractor.py, utils.py, models.py).                *)
(*                                                                         *)
(* Amounts are fixed-point integers in units of 0.0001, so 0.05 is 500.    *)
(* Dates are <<year, month, day>> triples compared lexicographically, as   *)
(* datetime.date compares.  An absent Optional value is a sentinel.        *)
(***************************************************************************)
EXTENDS Integers, Sequences, FiniteSets, TLC

VARIABLES invoices, results, error_counter, seen, summary, pc,
          raw_text, text, line_items, extracted, raised, xpc

vars == <<invoices, results, error_counter, seen, summary, pc,
          raw_text, text, line_items, extracted, raised, xpc>>

valVars == <<invoices, results, error_counter, seen, summary, pc>>
extVars == <<raw_text, text, line_items, extracted, raised, xpc>>

-----------------------------------------------------------------------------
(* Bounds *)

MaxInvoices == 3
MaxItems == 2
MaxLines == 3

-----------------------------------------------------------------------------
(* Generic helpers *)

Range(s) == {s[i] : i \in 1..Len(s)}

RECURSIVE SeqsUpTo(_, _)
SeqsUpTo(S, n) ==
    IF n = 0 THEN {<<>>}
    ELSE LET shorter == SeqsUpTo(S, n - 1)
         IN  shorter \cup {Append(s, x) : s \in {t \in shorter : Len(t) = n - 1}, x \in S}

Reverse(s) == [i \in 1..Len(s) |-> s[Len(s) + 1 - i]]

Abs(x) == IF x < 0 THEN -x ELSE x

-----------------------------------------------------------------------------
(* models.py: dates, amounts, strings *)

NoDate == <<0, 0, 0>>

DateLT(a, b) ==
    \/ a[1] < b[1]
    \/ a[1] = b[1] /\ a[2] < b[2]
    \/ a[1] = b[1] /\ a[2] = b[2] /\ a[3] < b[3]

DateLE(a, b) == a = b \/ DateLT(a, b)

\* str.lower() on the seller names that occur
Lower(s) ==
    CASE s = "Acme" -> "acme"
      [] s = "ACME" -> "acme"
      [] s = "Zed"  -> "zed"
      [] OTHER      -> s

\* str.upper() on the currency codes that occur
Upper(s) ==
    CASE s = "eur" -> "EUR"
      [] s = "usd" -> "USD"
      [] s = "xyz" -> "XYZ"
      [] OTHER     -> s

-----------------------------------------------------------------------------
(* validator.py *)

min_date == <<2000, 1, 1>>
max_date == <<2100, 1, 1>>
allowed_currencies == {"INR", "EUR", "USD", "GBP"}
tolerance == 500

DUP == "anomaly: duplicate_invoice"

_check_completeness(invoice) ==
    (IF invoice.invoice_number = "" THEN <<"missing_field: invoice_number">> ELSE <<>>)
    \o (IF invoice.invoice_date = NoDate THEN <<"missing_field: invoice_date">> ELSE <<>>)
    \o (IF invoice.seller_name = "" THEN <<"missing_field: seller_name">> ELSE <<>>)
    \o (IF invoice.buyer_name = "" THEN <<"missing_field: buyer_name">> ELSE <<>>)

InDateRange(d) == DateLE(min_date, d) /\ DateLE(d, max_date)

LineCode(idx, field) ==
    "format_error: line_" \o ToString(idx) \o "_" \o field \o "_negative"

LineItemErrors(item, idx) ==
    (IF item.quantity < 0 THEN <<LineCode(idx, "quantity")>> ELSE <<>>)
    \o (IF item.unit_price < 0 THEN <<LineCode(idx, "unit_price")>> ELSE <<>>)
    \o (IF item.line_total < 0 THEN <<LineCode(idx, "line_total")>> ELSE <<>>)

RECURSIVE AllLineItemErrors(_, _)
\* the errors of items k..Len(items), item k having Python index k-1
AllLineItemErrors(items, k) ==
    IF k > Len(items) THEN <<>>
    ELSE LineItemErrors(items[k], k - 1) \o AllLineItemErrors(items, k + 1)

_check_format_and_ranges(invoice) ==
    (IF ~InDateRange(invoice.invoice_date)
        THEN <<"format_error: invoice_date_out_of_range">> ELSE <<>>)
    \o (IF invoice.due_date # NoDate /\ ~InDateRange(invoice.due_date)
        THEN <<"format_error: due_date_out_of_range">> ELSE <<>>)
    \o (IF Upper(invoice.currency) \notin allowed_currencies
        THEN <<"format_error: currency_invalid">> ELSE <<>>)
    \o (IF invoice.net_total < 0 THEN <<"format_error: net_total_negative">> ELSE <<>>)
    \o (IF invoice.tax_amount < 0 THEN <<"format_error: tax_amount_negative">> ELSE <<>>)
    \o (IF invoice.gross_total < 0 THEN <<"format_error: gross_total_negative">> ELSE <<>>)
    \o AllLineItemErrors(invoice.line_items, 1)

RECURSIVE SumLineTotals(_)
SumLineTotals(items) ==
    IF items = <<>> THEN 0 ELSE Head(items).line_total + SumLineTotals(Tail(items))

\* a tolerance that excludes its boundary
ExceedsTolerance_Inclusive(diff) == Abs(diff) >= tolerance

ExceedsTolerance(diff) == Abs(diff) > tolerance

_check_business_rules(invoice) ==
    (IF invoice.line_items # <<>>
        /\ ExceedsTolerance(SumLineTotals(invoice.line_items) - invoice.net_total)
        THEN <<"business_rule_failed: line_items_net_mismatch">> ELSE <<>>)
    \o (IF ExceedsTolerance((invoice.net_total + invoice.tax_amount) - invoice.gross_total)
        THEN <<"business_rule_failed: totals_mismatch">> ELSE <<>>)
    \o (IF invoice.due_date # NoDate /\ DateLT(invoice.due_date, invoice.invoice_date)
        THEN <<"business_rule_failed: due_before_invoice_date">> ELSE <<>>)

\* business rules run before the format pass
PerRecordErrors_Reordered(inv) ==
    _check_completeness(inv) \o _check_business_rules(inv) \o _check_format_and_ranges(inv)

\* lines 89-92: the per-invoice error list
PerRecordErrors(inv) ==
    _check_completeness(inv) \o _check_format_and_ranges(inv) \o _check_business_rules(inv)

\* lines 97-103
NewResult(inv, errors) ==
    [invoice_id |-> inv.invoice_number, is_valid |-> Len(errors) = 0, errors |-> errors]

\* Counter: error_counter[e] += 1
CounterInc(counter, e) ==
    IF e \in DOMAIN counter THEN [counter EXCEPT ![e] = @ + 1]
    ELSE [c \in DOMAIN counter \cup {e} |-> IF c = e THEN 1 ELSE counter[c]]

RECURSIVE CountErrors(_, _)
\* lines 94-95
CountErrors(counter, errors) ==
    IF errors = <<>> THEN counter
    ELSE CountErrors(CounterInc(counter, Head(errors)), Tail(errors))

RECURSIVE FirstPassFrom(_, _, _, _)
\* lines 88-103, from invoice k on
FirstPassFrom(invs, k, res, counter) ==
    IF k > Len(invs) THEN [results |-> res, error_counter |-> counter]
    ELSE LET errors == PerRecordErrors(invs[k])
         IN  FirstPassFrom(invs, k + 1,
                           Append(res, NewResult(invs[k], errors)),
                           CountErrors(counter, errors))

EmptyDict == [x \in {} |-> 0]

FirstPassOf(invs) == FirstPassFrom(invs, 1, <<>>, EmptyDict)

\* a key on the seller name as written
DupKey_CaseSensitive(inv) == <<inv.seller_name, inv.invoice_number, inv.invoice_date>>

\* line 108
DupKey(inv) == <<Lower(inv.seller_name), inv.invoice_number, inv.invoice_date>>

\* a duplicate that keeps its validity flag
MarkDuplicate_KeepsFlag(res) == [res EXCEPT !.errors = Append(@, DUP)]

\* lines 110-111
MarkDuplicate(res) ==
    [res EXCEPT !.errors = Append(@, DUP), !.is_valid = FALSE]

\* a duplicate that is not counted
CountDuplicate_Skipped(counter) == counter

\* line 112
CountDuplicate(counter) == CounterInc(counter, DUP)

\* a pass that forgets the keys it has seen
Remember_Forgets(sn, key, number) == sn

\* line 114
Remember(sn, key, number) ==
    [k \in DOMAIN sn \cup {key} |-> IF k = key THEN number ELSE sn[k]]

RECURSIVE SecondPassFrom(_, _, _, _, _)
\* lines 106-114, from pair k on
SecondPassFrom(invs, k, res, counter, sn) ==
    IF k > Len(invs) \/ k > Len(res)
    THEN [results |-> res, error_counter |-> counter, seen |-> sn]
    ELSE LET key == DupKey(invs[k])
         IN  IF key \in DOMAIN sn
             THEN SecondPassFrom(invs, k + 1,
                                 [res EXCEPT ![k] = MarkDuplicate(@)],
                                 CountDuplicate(counter), sn)
             ELSE SecondPassFrom(invs, k + 1, res, counter,
                                 Remember(sn, key, invs[k].invoice_number))

SecondPassOf(invs, res, counter) == SecondPassFrom(invs, 1, res, counter, EmptyDict)

\* a count that misses the results invalid only as duplicates
InvalidCount_FirstPassOnly(res) ==
    Cardinality({i \in 1..Len(res) : res[i].errors # <<>> /\ res[i].errors # <<DUP>>})

\* line 118
InvalidCount(res) == Cardinality({i \in 1..Len(res) : ~res[i].is_valid})

\* lines 117-126
SummaryOf(res, counter) ==
    LET total == Len(res)
        invalid == InvalidCount(res)
        valid == total - invalid
    IN  [total_invoices |-> total, valid_invoices |-> valid,
         invalid_invoices |-> invalid, error_counts |-> counter]

\* validate_invoices as a function of its argument
ValidateInvoices(invs) ==
    LET p1 == FirstPassOf(invs)
        p2 == SecondPassOf(invs, p1.results, p1.error_counter)
    IN  [results |-> p2.results, summary |-> SummaryOf(p2.results, p2.error_counter)]

NoSummary ==
    [total_invoices |-> 0, valid_invoices |-> 0, invalid_invoices |-> 0,
     error_counts |-> EmptyDict]
-----------------------------------------------------------------------------
(* Input records.  validate_invoices reads the fields of the Invoice objects *)
(* it is handed; pydantic checks them at construction only, not on later     *)
(* assignment, and the validator tests for negative line-item fields and     *)
(* folds the currency case itself, so such records are among the inputs.     *)

\* an amount in units of 0.0001
Amt(whole, frac) == whole * 10000 + frac

Invoice(number, idate, ddate, seller, buyer, cur, net, tax, gross, items) ==
    [invoice_number |-> number, invoice_date |-> idate, due_date |-> ddate,
     seller_name |-> seller, buyer_name |-> buyer, currency |-> cur,
     net_total |-> net, tax_amount |-> tax, gross_total |-> gross,
     line_items |-> items]

LineItem(desc, qty, unit, total) ==
    [description |-> desc, quantity |-> qty, unit_price |-> unit, line_total |-> total]

\* a record that passes every per-record check
Base ==
    Invoice("INV-1", <<2024, 1, 10>>, NoDate, "Acme", "Beta", "INR",
            Amt(100, 0), Amt(18, 0), Amt(118, 0), <<>>)

InvoiceDates ==
    {<<1999, 12, 31>>, <<2000, 1, 1>>, <<2024, 1, 10>>, <<2100, 1, 1>>,
     <<2100, 6, 15>>, <<2100, 12, 31>>, <<2101, 1, 1>>}

DueDates ==
    {NoDate, <<1999, 12, 31>>, <<2024, 1, 5>>, <<2100, 1, 1>>, <<2100, 6, 15>>,
     <<2100, 12, 31>>, <<2101, 1, 1>>}

\* <<net_total, tax_amount, gross_total>>
Totals ==
    {<<Amt(100, 0), Amt(18, 0), Amt(118, 0)>>,
     <<Amt(100, 0), Amt(18, 0), Amt(118, 500)>>,
     <<Amt(100, 0), Amt(18, 0), Amt(118, 501)>>,
     <<Amt(100, 0), Amt(18, 0), Amt(117, 9500)>>,
     <<Amt(100, 0), Amt(18, 0), Amt(117, 9499)>>,
     <<-Amt(1, 0), Amt(18, 0), Amt(17, 0)>>,
     <<Amt(100, 0), -Amt(18, 0), Amt(82, 0)>>,
     <<Amt(100, 0), Amt(18, 0), -Amt(118, 0)>>}

Items ==
    {LineItem("Widget", Amt(2, 0), Amt(50, 0), Amt(100, 0)),
     LineItem("Widget", Amt(1, 0), Amt(100, 500), Amt(100, 500)),
     LineItem("Widget", Amt(1, 0), Amt(100, 501), Amt(100, 501)),
     LineItem("Widget", Amt(1, 0), Amt(99, 9500), Amt(99, 9500)),
     LineItem("Widget", Amt(1, 0), Amt(99, 9499), Amt(99, 9499)),
     LineItem("Gasket", Amt(1, 0), Amt(0, 500), Amt(0, 500)),
     LineItem("Gasket", -Amt(1, 0), Amt(5, 0), Amt(100, 0)),
     LineItem("Gasket", Amt(1, 0), -Amt(5, 0), -Amt(5, 0))}

ItemSeqs == SeqsUpTo(Items, MaxItems)

DateSlice ==
    {[Base EXCEPT !.invoice_date = d, !.due_date = u] : d \in InvoiceDates, u \in DueDates}

AmountSlice ==
    {[Base EXCEPT !.net_total = t[1], !.tax_amount = t[2], !.gross_total = t[3],
                  !.line_items = items] : t \in Totals, items \in ItemSeqs}

FieldSlice ==
    {[Base EXCEPT !.invoice_number = n, !.seller_name = s, !.buyer_name = b,
                  !.currency = c] :
        n \in {"", "INV-1"}, s \in {"", "Acme"}, b \in {"", "Beta"},
        c \in {"INR", "eur", "XYZ", ""}}

\* every combination of one violation per pass
CrossSlice ==
    {Invoice(n, d, u, "Acme", "Beta", c, t[1], t[2], t[3], items) :
        n \in {"", "INV-1"}, d \in {<<2024, 1, 10>>, <<2100, 6, 15>>},
        u \in {NoDate, <<2024, 1, 5>>}, c \in {"INR", "XYZ"},
        t \in {<<Amt(100, 0), Amt(18, 0), Amt(118, 0)>>,
               <<Amt(100, 0), -Amt(18, 0), Amt(118, 0)>>},
        items \in {<<>>, <<LineItem("Gasket", Amt(1, 0), -Amt(5, 0), -Amt(5, 0))>>}}

RecordInvoices == DateSlice \cup AmountSlice \cup FieldSlice \cup CrossSlice

\* records for batches: several share the key (acme, INV-2, 2024-02-01)
Feb1 == <<2024, 2, 1>>

BatchInvoices ==
    {Invoice("INV-2", Feb1, NoDate, "acme", "Beta", "INR",
             Amt(100, 0), Amt(18, 0), Amt(118, 0), <<>>),
     Invoice("INV-2", Feb1, NoDate, "Acme", "Gamma", "USD",
             Amt(200, 0), Amt(36, 0), Amt(236, 0), <<>>),
     Invoice("INV-2", Feb1, <<2024, 1, 5>>, "ACME", "", "XYZ",
             Amt(100, 0), Amt(18, 0), Amt(118, 0), <<>>),
     Invoice("INV-1", Feb1, NoDate, "acme", "Beta", "INR",
             Amt(100, 0), Amt(18, 0), Amt(118, 0), <<>>),
     Invoice("INV-2", <<2024, 1, 10>>, NoDate, "Acme", "Beta", "INR",
             Amt(100, 0), Amt(18, 0), Amt(118, 0), <<>>),
     Invoice("INV-1", <<2024, 1, 10>>, <<2024, 1, 5>>, "Acme", "Beta", "XYZ",
             Amt(100, 0), Amt(18, 0), Amt(118, 0), <<>>),
     Invoice("INV-2", Feb1, NoDate, "Zed", "Beta", "XYZ",
             Amt(100, 0), Amt(18, 0), Amt(118, 0), <<>>)}

Inputs ==
    SeqsUpTo(BatchInvoices, MaxInvoices) \cup {<<r>> : r \in RecordInvoices}

-----------------------------------------------------------------------------
(* validate_invoices as three steps *)

ExtractIdle ==
    /\ raw_text = <<>>
    /\ text = <<>>
    /\ line_items = <<>>
    /\ extracted = <<>>
    /\ raised = "none"
    /\ xpc = "idle"

Init ==
    /\ invoices \in Inputs
    /\ results = <<>>
    /\ error_counter = EmptyDict
    /\ seen = EmptyDict
    /\ summary = NoSummary
    /\ pc = "first_pass"
    /\ ExtractIdle

\* lines 84-103
FirstPass ==
    /\ pc = "first_pass"
    /\ LET p == FirstPassOf(invoices)
       IN  /\ results' = p.results
           /\ error_counter' = p.error_counter
    /\ pc' = "second_pass"
    /\ UNCHANGED <<invoices, seen, summary>>
    /\ UNCHANGED extVars

\* lines 105-114
SecondPass ==
    /\ pc = "second_pass"
    /\ LET p == SecondPassOf(invoices, results, error_counter)
       IN  /\ results' = p.results
           /\ error_counter' = p.error_counter
           /\ seen' = p.seen
    /\ pc' = "summary"
    /\ UNCHANGED <<invoices, summary>>
    /\ UNCHANGED extVars

\* lines 116-127
Summarize ==
    /\ pc = "summary"
    /\ summary' = SummaryOf(results, error_counter)
    /\ pc' = "done"
    /\ UNCHANGED <<invoices, results, error_counter, seen>>
    /\ UNCHANGED extVars

Next == FirstPass \/ SecondPass \/ Summarize

Spec == Init /\ [][Next]_vars

Done == pc = "done"
-----------------------------------------------------------------------------
(* utils.py and extractor.py: text is a sequence of lines, a line a sequence  *)
(* of tokens, a token a word or one whitespace character SP.                  *)

SP == " "

Words == {"Description", "Qty", "Unit", "Price", "Total", "Subtotal", "Net",
          "Widget", "2", "5.00", "10.00", "0", "-2", "1,000.00"}

\* the substrings of the lower-cased word among the keywords the extractors test
WordKeywords(w) ==
    CASE w = "Description" -> {"description"}
      [] w = "Qty"         -> {"qty"}
      [] w = "Total"       -> {"total"}
      [] w = "Subtotal"    -> {"subtotal", "total"}
      [] OTHER             -> {}

\* float(word) after the removal of commas: the value in units of 0.0001
NumVal(w) ==
    CASE w = "2"        -> [ok |-> TRUE, val |-> 20000]
      [] w = "5.00"     -> [ok |-> TRUE, val |-> 50000]
      [] w = "10.00"    -> [ok |-> TRUE, val |-> 100000]
      [] w = "0"        -> [ok |-> TRUE, val |-> 0]
      [] w = "-2"       -> [ok |-> TRUE, val |-> -20000]
      [] w = "1,000.00" -> [ok |-> TRUE, val |-> 10000000]
      [] OTHER          -> [ok |-> FALSE, val |-> 0]

\* the first match of [0-9.,]+ in the word, as parse_float_safe reads it
FirstNumericRun(w) ==
    IF w = "-2" THEN NumVal("2") ELSE NumVal(w)

RECURSIVE CollapseSpaces(_)
\* re.sub(r"\s+", " ", line)
CollapseSpaces(line) ==
    IF line = <<>> THEN <<>>
    ELSE IF Head(line) = SP /\ Len(line) > 1 /\ line[2] = SP
         THEN CollapseSpaces(Tail(line))
         ELSE <<Head(line)>> \o CollapseSpaces(Tail(line))

RECURSIVE LStrip(_)
LStrip(line) ==
    IF line # <<>> /\ Head(line) = SP THEN LStrip(Tail(line)) ELSE line

RECURSIVE RStrip(_)
RStrip(line) ==
    IF line # <<>> /\ line[Len(line)] = SP
    THEN RStrip(SubSeq(line, 1, Len(line) - 1)) ELSE line

\* str.strip()
Strip(line) == RStrip(LStrip(line))

NonEmpty(line) == line # <<>>

\* utils.clean_text
clean_text(raw) ==
    SelectSeq([i \in 1..Len(raw) |-> Strip(CollapseSpaces(raw[i]))], NonEmpty)

\* `kw in line.lower()`
Contains(line, kw) ==
    IF kw = "net total"
    THEN \E k \in 1..(Len(line) - 2) :
            line[k] = "Net" /\ line[k + 1] = SP /\ "total" \in WordKeywords(line[k + 2])
    ELSE \E k \in 1..Len(line) : kw \in WordKeywords(line[k])

RECURSIVE SpaceRun(_, _)
\* the number of whitespace tokens from position k on
SpaceRun(line, k) ==
    IF k <= Len(line) /\ line[k] = SP THEN 1 + SpaceRun(line, k + 1) ELSE 0

RECURSIVE SplitFrom(_, _, _, _)
SplitFrom(line, k, cur, acc) ==
    IF k > Len(line) THEN Append(acc, cur)
    ELSE IF line[k] = SP
         THEN IF SpaceRun(line, k) >= 2
              THEN SplitFrom(line, k + SpaceRun(line, k), <<>>, Append(acc, cur))
              ELSE SplitFrom(line, k + 1, Append(cur, SP), acc)
         ELSE SplitFrom(line, k + 1, Append(cur, line[k]), acc)

\* re.split(r"\s{2,}", line): the segments between runs of two or more spaces
SplitWide(line) == SplitFrom(line, 1, <<>>, <<>>)

RECURSIVE Join(_)
\* the segment as a string
Join(seg) == IF seg = <<>> THEN "" ELSE Head(seg) \o Join(Tail(seg))

\* utils.parse_float_safe: absent unless the stripped text is one number
parse_float_safe(seg) ==
    LET t == Strip(seg)
    IN  IF Len(t) = 1 THEN NumVal(t[1]) ELSE [ok |-> FALSE, val |-> 0]

\* Python `x or d` on an optional float: absent and 0.0 are both falsy
OrElse(parsed, d) == IF parsed.ok /\ parsed.val # 0 THEN parsed.val ELSE d

\* the product of two amounts in units of 0.0001; the numbers of the
\* vocabulary have at most two decimals, so this is exact
Times(a, b) == (a \div 100) * (b \div 100)

\* models.LineItem: Field(..., ge=0) on quantity, unit_price, line_total
LineItemAccepted(qty, unit, total) == qty >= 0 /\ unit >= 0 /\ total >= 0

\* models.LineItem.validate_line_total: every branch returns the value given
validate_line_total(v, qty, price) == v

IsHeader(line) == Contains(line, "description") /\ (Contains(line, "qty") \/ Contains(line, "quantity"))

RECURSIVE HeaderIndex(_, _)
\* lines 188-192: the index of the first header line from k on, 0 if none
HeaderIndex(lines, k) ==
    IF k > Len(lines) THEN 0
    ELSE IF IsHeader(lines[k]) THEN k ELSE HeaderIndex(lines, k + 1)

\* line 201
StopsItems(line) ==
    Contains(line, "subtotal") \/ Contains(line, "net total") \/ Contains(line, "total")

\* line 213
LineTotal(parts, qty, unit) ==
    OrElse(parse_float_safe(parts[Len(parts)]), Times(qty, unit))

RECURSIVE ItemsFrom(_, _, _)
\* lines 199-225: the rows from line k on; a LineItem that pydantic rejects
\* ends the call with ValidationError
ItemsFrom(lines, k, items) ==
    IF k > Len(lines) \/ StopsItems(lines[k])
    THEN [raised |-> "none", items |-> items]
    ELSE LET parts == SplitWide(Strip(lines[k]))
         IN  IF Len(parts) < 3 THEN ItemsFrom(lines, k + 1, items)
             ELSE LET description == Join(parts[1])
                      qty == OrElse(parse_float_safe(parts[2]), 0)
                      unit == OrElse(parse_float_safe(parts[3]), 0)
                      total == LineTotal(parts, qty, unit)
                  IN  IF description = "" THEN ItemsFrom(lines, k + 1, items)
                      ELSE IF ~LineItemAccepted(qty, unit, total)
                           THEN [raised |-> "ValidationError", items |-> items]
                           ELSE ItemsFrom(lines, k + 1,
                                    Append(items,
                                        LineItem(description, qty, unit,
                                                 validate_line_total(total, qty, unit))))

\* extractor.extract_line_items
extract_line_items(lines) ==
    LET header_index == HeaderIndex(lines, 1)
    IN  IF header_index = 0 THEN [raised |-> "none", items |-> <<>>]
        ELSE ItemsFrom(lines, header_index + 1, <<>>)

\* extractor.extract_invoice_number: the module never imports re, so the
\* evaluation of re.IGNORECASE on line 29 ends every call with NameError
extract_invoice_number(lines) == [raised |-> "NameError", value |-> ""]

RECURSIVE FirstNumberOf(_, _)
\* re.search(r"([0-9.,]+)", line) read by parse_float_safe
FirstNumberOf(line, k) ==
    IF k > Len(line) THEN [ok |-> FALSE, val |-> 0]
    ELSE IF line[k] # SP /\ FirstNumericRun(line[k]).ok THEN FirstNumericRun(line[k])
         ELSE FirstNumberOf(line, k + 1)

RECURSIVE NetTotalFrom(_, _, _)
\* extract_totals, lines 147-150: the last net total / subtotal line wins;
\* no word of the vocabulary carries "tax", "vat", "grand", "amount payable"
\* or "invoice total", and a line that is exactly "total" has no number
NetTotalFrom(lines, k, found) ==
    IF k > Len(lines) THEN found
    ELSE IF (Contains(lines[k], "net total") \/ Contains(lines[k], "subtotal"))
            /\ FirstNumberOf(lines[k], 1).ok
         THEN NetTotalFrom(lines, k + 1, FirstNumberOf(lines[k], 1))
         ELSE NetTotalFrom(lines, k + 1, found)

\* the clock reading of date.today()
Today == <<2026, 1, 1>>

\* lines 245-272: the fallback chain and the Invoice; the vocabulary has no
\* date, party, currency or payment-terms label, so those extractors find
\* nothing and the defaults apply
BuildInvoice(lines, items, number) ==
    LET found == NetTotalFrom(lines, 1, [ok |-> FALSE, val |-> 0])
        net_total == IF found.ok THEN found.val ELSE SumLineTotals(items)
        tax_amount == 0
        gross_total == net_total + tax_amount
    IN  Invoice(number, Today, NoDate, "UNKNOWN_SELLER", "UNKNOWN_BUYER", "INR",
                net_total, tax_amount, gross_total, items)

-----------------------------------------------------------------------------
(* Source texts *)

Gap == <<SP, SP, SP>>

HeaderLine ==
    <<"Description">> \o Gap \o <<"Qty">> \o Gap \o <<"Unit", SP, "Price">> \o Gap \o <<"Total">>

Row(desc, qty, unit, total) ==
    <<desc>> \o Gap \o <<qty>> \o Gap \o <<unit>> \o Gap \o <<total>>

RawLines ==
    {HeaderLine,
     Row("Widget", "2", "5.00", "10.00"),
     <<SP>> \o Row("Widget", "1,000.00", "2", "Widget") \o <<SP, SP>>,
     Row("Widget", "2", "5.00", "0"),
     Row("Widget", "-2", "5.00", "10.00"),
     <<"Widget">> \o Gap \o <<"2">>,
     <<"Widget", SP, "2", SP, "5.00", SP, "10.00">>,
     <<SP, SP>>,
     <<"Subtotal", SP, "10.00">>,
     <<"Net", SP, "Total", SP, SP, "1,000.00">>}

RawTexts == SeqsUpTo(RawLines, MaxLines)

-----------------------------------------------------------------------------
(* extract_invoice_from_pdf as steps, and extract_line_items called alone *)

ValidateIdle ==
    /\ invoices = <<>>
    /\ results = <<>>
    /\ error_counter = EmptyDict
    /\ seen = EmptyDict
    /\ summary = NoSummary
    /\ pc = "idle"

InitExtract ==
    /\ raw_text \in RawTexts
    /\ text = <<>>
    /\ line_items = <<>>
    /\ extracted = <<>>
    /\ raised = "none"
    /\ xpc = "start"
    /\ ValidateIdle

\* line 229, extract_text_from_pdf: the page text, normalized
ExtractText ==
    /\ xpc = "start"
    /\ text' = clean_text(raw_text)
    /\ xpc' = "fields"
    /\ UNCHANGED <<raw_text, line_items, extracted, raised>>
    /\ UNCHANGED valVars

\* lines 230-242: the extractors up to extract_line_items
ExtractFields ==
    /\ xpc = "fields"
    /\ LET r == extract_line_items(text)
       IN  IF r.raised # "none"
           THEN /\ raised' = r.raised
                /\ xpc' = "raised"
                /\ UNCHANGED line_items
           ELSE /\ line_items' = r.items
                /\ xpc' = "number"
                /\ UNCHANGED raised
    /\ UNCHANGED <<raw_text, text, extracted>>
    /\ UNCHANGED valVars

\* lines 243-272: the invoice number, the fallbacks and the Invoice
ExtractNumberAndBuild ==
    /\ xpc = "number"
    /\ LET n == extract_invoice_number(text)
       IN  IF n.raised # "none"
           THEN /\ raised' = n.raised
                /\ xpc' = "raised"
                /\ UNCHANGED extracted
           ELSE /\ extracted' = <<BuildInvoice(text, line_items,
                                      IF n.value # "" THEN n.value ELSE "file.pdf")>>
                /\ xpc' = "returned"
                /\ UNCHANGED raised
    /\ UNCHANGED <<raw_text, text, line_items>>
    /\ UNCHANGED valVars

\* extract_line_items called on text as it came, not normalized
CallExtractLineItems ==
    /\ xpc = "start"
    /\ LET r == extract_line_items(raw_text)
       IN  /\ raised' = r.raised
           /\ line_items' = r.items
    /\ xpc' = "direct"
    /\ UNCHANGED <<raw_text, text, extracted>>
    /\ UNCHANGED valVars

NextExtract ==
    ExtractText \/ ExtractFields \/ ExtractNumberAndBuild \/ CallExtractLineItems

SpecExtract == InitExtract /\ [][NextExtract]_vars

-----------------------------------------------------------------------------
(* Properties of validate_invoices *)

\* the duplicate key as the specification words it
ClaimKey(inv) ==
    <<CASE inv.seller_name \in {"acme", "Acme", "ACME"} -> "acme"
        [] inv.seller_name \in {"zed", "Zed"} -> "zed"
        [] OTHER -> inv.seller_name,
      inv.invoice_number, inv.invoice_date>>

Flagged(res) == DUP \in Range(res.errors)

Occurrences(errors, code) == Cardinality({k \in 1..Len(errors) : errors[k] = code})

\* a finished batch of two distinct records A, B that share the duplicate key
SameKeyPair ==
    /\ Done
    /\ Len(invoices) = 2
    /\ invoices[1] # invoices[2]
    /\ ClaimKey(invoices[1]) = ClaimKey(invoices[2])

\* in [A, B] the second record B is flagged, in [B, A] the second record A
FlagFollowsOrder(swapped) ==
    /\ Flagged(results[2]) /\ ~Flagged(results[1])
    /\ Flagged(swapped.results[2]) /\ ~Flagged(swapped.results[1])
    /\ swapped.results[2].invoice_id = invoices[1].invoice_number

\* C1 as stated: two records A and B with the same duplicate key and different
\* content: [A, B] flags B, [B, A] flags A instead, and invalid_invoices is
\* the same for both orders.
C1_OrderSensitivity ==
    SameKeyPair =>
        LET swapped == ValidateInvoices(Reverse(invoices))
        IN  /\ FlagFollowsOrder(swapped)
            /\ summary.invalid_invoices = swapped.summary.invalid_invoices

\* C1 amended: [A, B] flags B and [B, A] flags A instead; invalid_invoices is
\* the same for both orders exactly when A and B agree on whether they pass
\* the per-record checks, and otherwise the two counts differ by one.
C1_OrderSensitivityAmended ==
    SameKeyPair =>
        LET swapped == ValidateInvoices(Reverse(invoices))
        IN  /\ FlagFollowsOrder(swapped)
            /\ (summary.invalid_invoices = swapped.summary.invalid_invoices)
               <=> ((results[1].errors = <<>>) <=> (swapped.results[1].errors = <<>>))
            /\ Abs(summary.invalid_invoices - swapped.summary.invalid_invoices) <= 1

\* a same-key pair whose first record is clean and whose second is not
C1_Witness ==
    /\ SameKeyPair
    /\ results[1].errors = <<>>
    /\ Len(results[2].errors) > 1
    /\ Flagged(results[2])
    /\ summary.invalid_invoices = 1

\* C2: for every key, the first record in input order gets no
\* duplicate_invoice error; every later record with the key (seller name
\* compared without case) gets exactly one, appended last, and is invalid.
C2_DuplicatePass ==
    pc \in {"summary", "done"} =>
        \A i \in 1..Len(invoices) :
            IF \E j \in 1..(i - 1) : ClaimKey(invoices[j]) = ClaimKey(invoices[i])
            THEN /\ Occurrences(results[i].errors, DUP) = 1
                 /\ results[i].errors[Len(results[i].errors)] = DUP
                 /\ ~results[i].is_valid
            ELSE ~Flagged(results[i])

\* "acme" then "Acme" with the same number and date, both clean on their own,
\* and a third record of the same key
C2_Witness ==
    /\ Done
    /\ Len(invoices) = 3
    /\ invoices[1].seller_name = "acme" /\ invoices[2].seller_name = "Acme"
    /\ ClaimKey(invoices[1]) = ClaimKey(invoices[2])
    /\ ClaimKey(invoices[1]) = ClaimKey(invoices[3])
    /\ results[1].is_valid /\ results[1].errors = <<>>
    /\ ~results[2].is_valid /\ results[2].errors = <<DUP>>
    /\ Flagged(results[3])

AllCodes == UNION {Range(results[i].errors) : i \in 1..Len(results)}

ResultsWith(code) == {i \in 1..Len(results) : code \in Range(results[i].errors)}

\* C5: every error code that appears in a result is a key of error_counts,
\* and its count is the number of results whose error list contains it.
C5_ErrorCounts ==
    Done =>
        \A code \in AllCodes :
            /\ code \in DOMAIN summary.error_counts
            /\ summary.error_counts[code] = Cardinality(ResultsWith(code))

\* two duplicates and a per-record error shared by two results
C5_Witness ==
    /\ Done
    /\ DUP \in DOMAIN summary.error_counts
    /\ summary.error_counts[DUP] = 2
    /\ \E code \in AllCodes \ {DUP} : summary.error_counts[code] = 2

\* C6: after both passes, a result is valid if and only if it has no errors.
C6_ValidIffNoErrors ==
    pc \in {"summary", "done"} =>
        \A i \in 1..Len(results) : results[i].is_valid <=> (results[i].errors = <<>>)

\* a record that passed the per-record checks and was flagged as a duplicate
C6_Witness ==
    /\ Done
    /\ \E i \in 1..Len(results) :
          /\ results[i].errors = <<DUP>>
          /\ ~results[i].is_valid
          /\ PerRecordErrors(invoices[i]) = <<>>

\* C7: valid + invalid = total, total is the number of input records and
\* invalid is the number of results that are not valid.
C7_SummaryCounts ==
    Done =>
        /\ summary.valid_invoices + summary.invalid_invoices = summary.total_invoices
        /\ summary.total_invoices = Len(invoices)
        /\ summary.invalid_invoices
              = Cardinality({i \in 1..Len(results) : results[i].is_valid = FALSE})

\* a batch of three with both valid and invalid results, one of them invalid
\* only because it is a duplicate
C7_Witness ==
    /\ Done
    /\ summary.total_invoices = 3
    /\ summary.valid_invoices = 1
    /\ summary.invalid_invoices = 2
    /\ \E i \in 1..Len(results) : results[i].errors = <<DUP>>

Year(d) == d[1]

ErrorsOf(i) == Range(results[i].errors)

\* C4 as stated: invoice_date_out_of_range is reported if and only if the
\* year of invoice_date is below 2000 or above 2100, due_date_out_of_range
\* if and only if due_date is present and its year is below 2000 or above
\* 2100; every date of the year 2100 is accepted.
C4_DateWindow ==
    pc # "first_pass" =>
        \A i \in 1..Len(invoices) :
            LET inv == invoices[i]
            IN  /\ ("format_error: invoice_date_out_of_range" \in ErrorsOf(i))
                   <=> (Year(inv.invoice_date) < 2000 \/ Year(inv.invoice_date) > 2100)
                /\ ("format_error: due_date_out_of_range" \in ErrorsOf(i))
                   <=> (/\ inv.due_date # NoDate
                        /\ (Year(inv.due_date) < 2000 \/ Year(inv.due_date) > 2100))

MISMATCH == "business_rule_failed: line_items_net_mismatch"

LineGap(inv) == SumLineTotals(inv.line_items) - inv.net_total

CodeOrder ==
    <<"missing_field: invoice_number", "missing_field: invoice_date",
      "missing_field: seller_name", "missing_field: buyer_name",
      "format_error: invoice_date_out_of_range", "format_error: due_date_out_of_range",
      "format_error: currency_invalid", "format_error: net_total_negative",
      "format_error: tax_amount_negative", "format_error: gross_total_negative",
      "format_error: line_0_quantity_negative", "format_error: line_0_unit_price_negative",
      "format_error: line_0_line_total_negative",
      "format_error: line_1_quantity_negative", "format_error: line_1_unit_price_negative",
      "format_error: line_1_line_total_negative",
      "format_error: line_2_quantity_negative", "format_error: line_2_unit_price_negative",
      "format_error: line_2_line_total_negative",
      "format_error: line_3_quantity_negative", "format_error: line_3_unit_price_negative",
      "format_error: line_3_line_total_negative",
      "business_rule_failed: line_items_net_mismatch",
      "business_rule_failed: totals_mismatch",
      "business_rule_failed: due_before_invoice_date",
      "anomaly: duplicate_invoice">>

OutOfWindow(d) == DateLT(d, <<2000, 1, 1>>) \/ DateLT(<<2100, 1, 1>>, d)

ItemNegative(inv, k, field) ==
    /\ Len(inv.line_items) >= k
    /\ CASE field = "quantity"   -> inv.line_items[k].quantity < 0
         [] field = "unit_price" -> inv.line_items[k].unit_price < 0
         [] OTHER                -> inv.line_items[k].line_total < 0

\* whether record i of the batch violates the rule that position p of
\* CodeOrder reports
Violated(i, p) ==
    LET inv == invoices[i]
    IN  CASE p = 1  -> inv.invoice_number = ""
          [] p = 2  -> inv.invoice_date = NoDate
          [] p = 3  -> inv.seller_name = ""
          [] p = 4  -> inv.buyer_name = ""
          [] p = 5  -> OutOfWindow(inv.invoice_date)
          [] p = 6  -> inv.due_date # NoDate /\ OutOfWindow(inv.due_date)
          [] p = 7  -> inv.currency \notin {"INR", "EUR", "USD", "GBP",
                                            "inr", "eur", "usd", "gbp"}
          [] p = 8  -> inv.net_total < 0
          [] p = 9  -> inv.tax_amount < 0
          [] p = 10 -> inv.gross_total < 0
          [] p \in 11..22 ->
               ItemNegative(inv, ((p - 11) \div 3) + 1,
                            <<"quantity", "unit_price", "line_total">>[((p - 11) % 3) + 1])
          [] p = 23 -> inv.line_items # <<>> /\ (LineGap(inv) > 500 \/ LineGap(inv) < -500)
          [] p = 24 -> LET gap == inv.net_total + inv.tax_amount - inv.gross_total
                       IN  gap > 500 \/ gap < -500
          [] p = 25 -> inv.due_date # NoDate /\ DateLT(inv.due_date, inv.invoice_date)
          [] OTHER  -> \E j \in 1..(i - 1) : ClaimKey(invoices[j]) = ClaimKey(invoices[i])

RECURSIVE ExpectedFrom(_, _)
\* the codes of the violated rules of record i, from position p of CodeOrder
ExpectedFrom(i, p) ==
    IF p > Len(CodeOrder) THEN <<>>
    ELSE (IF Violated(i, p) THEN <<CodeOrder[p]>> ELSE <<>>) \o ExpectedFrom(i, p + 1)

Inv1Example ==
    [invoice_number |-> "INV-1", invoice_date |-> <<2024, 1, 10>>,
     due_date |-> <<2024, 1, 5>>, seller_name |-> "Acme", buyer_name |-> "Beta",
     currency |-> "XYZ", net_total |-> 1000000, tax_amount |-> 180000,
     gross_total |-> 1180000, line_items |-> <<>>]

\* C10: each result's error list is, in the fixed order completeness,
\* format/range (dates, currency, net, tax, gross, line items by index),
\* business rules, then at most one duplicate_invoice, the code of every
\* violated rule, whatever failed before it; the record INV-1 gets exactly
\* currency_invalid then due_before_invoice_date.
C10_AllErrorsInOrder ==
    pc \in {"summary", "done"} =>
        \A i \in 1..Len(invoices) :
            /\ results[i].errors = ExpectedFrom(i, 1)
            /\ (invoices[i] = Inv1Example /\ ~Violated(i, 26))
                  => results[i].errors = <<"format_error: currency_invalid",
                                           "business_rule_failed: due_before_invoice_date">>

\* the INV-1 record first, and a later record that fails in all three
\* passes and is flagged as a duplicate last
C10_Witness ==
    /\ Done
    /\ Len(invoices) = 3
    /\ invoices[1] = Inv1Example
    /\ results[1].errors = <<"format_error: currency_invalid",
                             "business_rule_failed: due_before_invoice_date">>
    /\ \E i \in 2..Len(invoices) :
          results[i].errors = <<"missing_field: buyer_name",
                                "format_error: currency_invalid",
                                "business_rule_failed: due_before_invoice_date",
                                "anomaly: duplicate_invoice">>

-----------------------------------------------------------------------------
(* Properties of the extraction pipeline *)

InPipeline == xpc \in {"fields", "number", "raised", "returned"}

\* C3 as stated: for every input text extract_invoice_from_pdf runs all
\* extractors and the fallback chain without raising, and returns a complete
\* Invoice record.
C3_ExtractionNeverRaises ==
    InPipeline => (raised = "none" /\ xpc # "raised")

ScenarioText ==
    <<HeaderLine, Row("Widget", "2", "5.00", "10.00"), <<"Subtotal", SP, "10.00">>>>

\* C9 as stated: the scenario text (header, "Widget   2   5.00   10.00",
\* "Subtotal 10.00"), normalized by clean_text and then given to
\* extract_line_items, yields exactly one line item: Widget, quantity 2,
\* unit_price 5.0, line_total 10.0.
C9_PipelineLineItems ==
    (raw_text = ScenarioText /\ xpc \in {"number", "raised", "returned"}) =>
        line_items = <<[description |-> "Widget", quantity |-> 20000,
                        unit_price |-> 50000, line_total |-> 100000]>>

RECURSIVE ProcessedRows(_, _)
\* the segments of the rows from line k up to the first total line that have
\* at least 3 segments and a non-empty description
ProcessedRows(lines, k) ==
    IF k > Len(lines) \/ StopsItems(lines[k]) THEN <<>>
    ELSE LET parts == SplitWide(Strip(lines[k]))
         IN  (IF Len(parts) >= 3 /\ parts[1] # <<>> THEN <<parts>> ELSE <<>>)
             \o ProcessedRows(lines, k + 1)

RowsOf(lines) ==
    IF HeaderIndex(lines, 1) = 0 THEN <<>>
    ELSE ProcessedRows(lines, HeaderIndex(lines, 1) + 1)

\* C11 as stated: in extract_line_items, for every processed row with at
\* least 3 segments and a non-empty description, line_total is the parsed
\* value of the last segment whenever that segment parses as a number
\* (also when it parses to 0), and quantity x unit_price only when the last
\* segment is unparseable.
C11_LineTotalFallback ==
    (xpc = "direct" /\ raised = "none") =>
        LET rows == RowsOf(raw_text)
        IN  /\ Len(line_items) = Len(rows)
            /\ \A k \in 1..Len(rows) :
                  LET last == parse_float_safe(rows[k][Len(rows[k])])
                      item == line_items[k]
                  IN  item.line_total =
                          IF last.ok THEN last.val
                          ELSE Times(item.quantity, item.unit_price)

====
